---- MODULE Spec2Model ----
(***************************************************************************)
(* State-machine model of the vendroo server (src/index.js): an Express    *)
(* application with a form resource and a to-do resource, both persisted   *)
(* in PostgreSQL through one connection pool.                              *)
(*                                                                         *)
(* Strings are sequences of one-character strings, so that lengths,        *)
(* case folding, substring search and LIKE patterns are computed.          *)
(* JavaScript values are tagged records (undefined, null, string,          *)
(* boolean); SQL values are tagged records (null, string, boolean,         *)
(* timestamp, integer) or the error mark of a rejected statement.          *)
(***************************************************************************)
EXTENDS Integers, Sequences, FiniteSets, TLC

VARIABLES
    variant,        \* which of the two server files is running (1 or 2)
    BASE_URL,       \* process.env.BASE_URL, fixed at process start
    uploads,        \* file names present in the uploads directory
    form_entries,   \* rows of table form_entries
    form_seq,       \* last value of form_entries_id_seq
    todos,          \* rows of table todos
    todo_seq,       \* last value of todos_id_seq
    req,            \* the request handled last
    resp,           \* its response: [status, rows]
    issued,         \* history: ids returned by successful creates, per table, in order
    deleted,        \* history: todo ids whose DELETE returned 200
    inflight,       \* concurrent model: request slots and their progress
    order           \* concurrent model: slots in the order their statements ran

vars == <<variant, BASE_URL, uploads, form_entries, form_seq, todos, todo_seq,
          req, resp, issued, deleted, inflight, order>>

dbVars == <<form_entries, form_seq, todos, todo_seq>>
concVars == <<inflight, order>>

-----------------------------------------------------------------------------
(* Bounds of the model *)

\* highest value either id sequence may reach
MaxId == 2
\* number of concurrent request slots
MaxInFlight == 3

-----------------------------------------------------------------------------
(* Program constants *)

OwnerWidth == 100
ShopnameWidth == 100
BusinesstypeWidth == 100
PhoneWidth == 20
LocationWidth == 100
BuildingWidth == 100
TitleWidth == 255
Int4Max == 2147483647

-----------------------------------------------------------------------------
(* JavaScript values *)

Undef == [t |-> "undefined"]
Null == [t |-> "null"]
S(chars) == [t |-> "string", v |-> chars]
B(b) == [t |-> "boolean", v |-> b]

\* ToBoolean, as used by ! and ||
Truthy(x) ==
    CASE x.t = "undefined" -> FALSE
      [] x.t = "null" -> FALSE
      [] x.t = "string" -> x.v # <<>>
      [] x.t = "boolean" -> x.v

\* a || b
Or(a, b) == IF Truthy(a) THEN a ELSE b

\* the character c repeated n times
Rep(c, n) == [i \in 1..n |-> c]

-----------------------------------------------------------------------------
(* The store: parameter conversion and column input *)

Err == [t |-> "error"]
IsErr(x) == "t" \in DOMAIN x /\ x.t = "error"
Ts(n) == [t |-> "timestamp", v |-> n]

\* node-postgres prepareValue: undefined and null are sent as NULL, a boolean
\* as the text 'true' / 'false', a string as itself
PrepareValue(x) ==
    CASE x.t \in {"undefined", "null"} -> Null
      [] x.t = "boolean" -> S(IF x.v THEN <<"t","r","u","e">> ELSE <<"f","a","l","s","e">>)
      [] OTHER -> x

\* assignment to a VARCHAR(n) column: a longer value is an error unless the
\* excess is all spaces, and then it is truncated
VarcharIn(p, n) ==
    IF p.t = "null" THEN Null
    ELSE IF Len(p.v) <= n THEN p
    ELSE IF \A i \in (n+1)..Len(p.v) : p.v[i] = " " THEN S(SubSeq(p.v, 1, n))
    ELSE Err

\* assignment to a TEXT column
TextIn(p) == p

\* boolean input of a text parameter
BoolIn(p) ==
    IF p.t = "null" THEN Null
    ELSE IF p.v \in {<<"t","r","u","e">>, <<"t">>, <<"1">>} THEN B(TRUE)
    ELSE IF p.v \in {<<"f","a","l","s","e">>, <<"f">>, <<"0">>} THEN B(FALSE)
    ELSE Err

\* the timestamp literals the model submits
DateA == <<"2","0","2","5","-","0","1","-","0","1">>
DateAFull == DateA \o <<" ","0","0",":","0","0">>
DateB == <<"2","0","2","5","-","0","1","-","0","2">>
DateBad == <<"s","o","o","n">>

\* timestamp input of a text parameter: the same instant for the date and for
\* the date with a midnight time; anything that is not a date/time is an error
TimestampIn(p) ==
    IF p.t = "null" THEN Null
    ELSE IF p.v \in {DateA, DateAFull} THEN Ts(1)
    ELSE IF p.v = DateB THEN Ts(2)
    ELSE Err

Digits == <<"0","1","2","3","4","5","6","7","8","9">>
IsDigit(c) == \E d \in 1..10 : Digits[d] = c
DigitVal(c) == (CHOOSE d \in 1..10 : Digits[d] = c) - 1

\* the digits cs read into the negative accumulator acc, as the store's integer
\* input reads them; Err when the value leaves 32 bits
RECURSIVE DigitsVal(_, _)
DigitsVal(cs, acc) ==
    IF cs = <<>> THEN [t |-> "integer", v |-> acc]
    ELSE LET d == DigitVal(Head(cs))
             lim == IF d = 0 THEN Int4Max \div 10 ELSE (Int4Max - (d - 1)) \div 10
         IN IF acc < 0 - lim THEN Err ELSE DigitsVal(Tail(cs), acc * 10 - d)

RECURSIVE TrimLeft(_)
TrimLeft(cs) == IF cs # <<>> /\ Head(cs) = " " THEN TrimLeft(Tail(cs)) ELSE cs

RECURSIVE TrimRight(_)
TrimRight(cs) ==
    IF cs # <<>> /\ cs[Len(cs)] = " " THEN TrimRight(SubSeq(cs, 1, Len(cs) - 1)) ELSE cs

\* integer (int4) input of a text parameter: optional blanks, an optional
\* sign, at least one digit, within 32 bits; anything else is an error
Int4In(p) ==
    IF p.t = "null" THEN Null
    ELSE LET body == TrimRight(TrimLeft(p.v))
             neg == body # <<>> /\ Head(body) = "-"
             ds == IF body # <<>> /\ Head(body) \in {"-", "+"} THEN Tail(body) ELSE body
         IN IF ds = <<>> \/ \E i \in 1..Len(ds) : ~IsDigit(ds[i]) THEN Err
            ELSE LET m == DigitsVal(ds, 0)
                 IN IF IsErr(m) THEN Err
                    ELSE IF neg THEN m
                    ELSE IF m.v = 0 - Int4Max - 1 THEN Err
                    ELSE [t |-> "integer", v |-> 0 - m.v]

\* a NOT NULL column rejects NULL
NotNull(c) == IF c.t = "null" THEN Err ELSE c

\* COALESCE(a, b)
Coalesce(a, b) == IF a.t = "null" THEN b ELSE a

\* ORDER BY id DESC over a set of rows
RECURSIVE OrderByIdDesc(_)
OrderByIdDesc(rows) ==
    IF rows = {} THEN <<>>
    ELSE LET top == CHOOSE r \in rows : \A o \in rows : o.id <= r.id
         IN <<top>> \o OrderByIdDesc(rows \ {top})

\* nextval of a SERIAL column's sequence
Nextval(seq) == seq + 1

-----------------------------------------------------------------------------
(* Requests and responses *)

Response(status, rows) == [status |-> status, rows |-> rows]
NoRequest == [op |-> "none"]

\* multer's diskStorage: Date.now() + "-" + random, then the extension of the
\* original name; stamp stands for the timestamp-and-random part
Filename(file) == <<file.stamp, file.ext>>

\* after upload.single("photo"): the uploads directory holds the file
Stored(file) == IF file.present THEN uploads \cup {Filename(file)} ELSE uploads

-----------------------------------------------------------------------------
(* Form resource *)

\* the required-field check with the test of location left out
FormInvalidNoLocation(b) ==
    ~Truthy(b.owner) \/ ~Truthy(b.shopname) \/ ~Truthy(b.businesstype)
        \/ ~Truthy(b.phone)

\* the required-field check of POST /api/form
FormInvalid(b) ==
    ~Truthy(b.owner) \/ ~Truthy(b.shopname) \/ ~Truthy(b.businesstype)
        \/ ~Truthy(b.phone) \/ ~Truthy(b.location)

\* the base URL of the first file: BASE_URL, else the production host
BaseUrl1 == Or(BASE_URL, S(<<"https://vendroo-server.onrender.com">>))

\* the base URL of the second file: BASE_URL, else localhost with the port
BaseUrl2 == Or(BASE_URL, S(<<"http://localhost:", "5000">>))

PhotoUrl(base, file) ==
    IF file.present THEN S(base.v \o <<"/uploads/">> \o Filename(file)) ELSE Null

\* the id DEFAULT of form_entries: nextval of its sequence
FormNextId == Nextval(form_seq)

\* the INSERT with $1 and $2 bound to each other's column
FormRowSwapped(b, photo_url) ==
    LET owner == NotNull(VarcharIn(PrepareValue(b.shopname), OwnerWidth))
        shopname == NotNull(VarcharIn(PrepareValue(b.owner), ShopnameWidth))
        businesstype == NotNull(VarcharIn(PrepareValue(b.businesstype), BusinesstypeWidth))
        phone == NotNull(VarcharIn(PrepareValue(b.phone), PhoneWidth))
        location == NotNull(VarcharIn(PrepareValue(b.location), LocationWidth))
        building == VarcharIn(PrepareValue(Or(b.building, S(<<>>))), BuildingWidth)
    IN IF \E c \in {owner, shopname, businesstype, phone, location, building} : IsErr(c)
       THEN Err
       ELSE [id |-> FormNextId, owner |-> owner, shopname |-> shopname,
             businesstype |-> businesstype, phone |-> phone, location |-> location,
             building |-> building, photo_url |-> TextIn(PrepareValue(photo_url))]

\* INSERT INTO form_entries (...) VALUES ($1..$7) RETURNING *: the row, or Err
FormRow(b, photo_url) ==
    LET owner == NotNull(VarcharIn(PrepareValue(b.owner), OwnerWidth))
        shopname == NotNull(VarcharIn(PrepareValue(b.shopname), ShopnameWidth))
        businesstype == NotNull(VarcharIn(PrepareValue(b.businesstype), BusinesstypeWidth))
        phone == NotNull(VarcharIn(PrepareValue(b.phone), PhoneWidth))
        location == NotNull(VarcharIn(PrepareValue(b.location), LocationWidth))
        building == VarcharIn(PrepareValue(Or(b.building, S(<<>>))), BuildingWidth)
    IN IF \E c \in {owner, shopname, businesstype, phone, location, building} : IsErr(c)
       THEN Err
       ELSE [id |-> FormNextId, owner |-> owner, shopname |-> shopname,
             businesstype |-> businesstype, phone |-> phone, location |-> location,
             building |-> building, photo_url |-> TextIn(PrepareValue(photo_url))]

\* the handler of POST /api/form, with the base URL of the running file
FormCreate(b, file, base, burn) ==
    /\ req' = [op |-> "POST /api/form", body |-> b, file |-> file]
    /\ uploads' = Stored(file)
    /\ UNCHANGED <<variant, BASE_URL, todos, todo_seq, deleted, concVars>>
    /\ IF FormInvalid(b)
       THEN /\ resp' = Response(400, <<>>)
            /\ UNCHANGED <<form_entries, form_seq, issued>>
       ELSE LET row == FormRow(b, PhotoUrl(base, file))
            IN IF IsErr(row)
               THEN \* the statement fails; whether nextval ran first is the store's
                    /\ form_seq < MaxId
                    /\ form_seq' = IF burn THEN Nextval(form_seq) ELSE form_seq
                    /\ resp' = Response(500, <<>>)
                    /\ UNCHANGED <<form_entries, issued>>
               ELSE /\ form_seq < MaxId
                    /\ form_seq' = row.id
                    /\ form_entries' = form_entries \cup {row}
                    /\ issued' = [issued EXCEPT !.form = Append(@, row.id)]
                    /\ resp' = Response(200, <<row>>)

\* app.post("/api/form") of the first file
PostForm(b, file, burn) ==
    /\ variant = 1
    /\ FormCreate(b, file, BaseUrl1, burn)

\* app.post("/api/form") of the second file
PostForm2(b, file, burn) ==
    /\ variant = 2
    /\ FormCreate(b, file, BaseUrl2, burn)

\* the listing with the rows in ascending order
FormListAsc == LET d == OrderByIdDesc(form_entries)
               IN [i \in 1..Len(d) |-> d[Len(d) + 1 - i]]

\* SELECT * FROM form_entries ORDER BY id DESC
FormList == OrderByIdDesc(form_entries)

\* app.get("/api/form"), the same in both files
GetForm ==
    /\ req' = [op |-> "GET /api/form"]
    /\ resp' = Response(200, FormList)
    /\ UNCHANGED <<variant, BASE_URL, uploads, dbVars, issued, deleted, concVars>>

-----------------------------------------------------------------------------
(* To-do resource: the statements *)

\* an id taken from the number of rows instead of the sequence
TodoNextIdReused == Cardinality(todos) + 1

\* the id DEFAULT of todos: nextval of its sequence
TodoNextId == Nextval(todo_seq)

\* the INSERT with description bound without its || "" default
TodoRowNoDefault(b) ==
    LET title == NotNull(VarcharIn(PrepareValue(b.title), TitleWidth))
        description == TextIn(PrepareValue(b.description))
        due_date == TimestampIn(PrepareValue(Or(b.due_date, Null)))
    IN IF IsErr(title) \/ IsErr(description) \/ IsErr(due_date)
       THEN Err
       ELSE [id |-> TodoNextId, title |-> title, description |-> description,
             completed |-> B(FALSE), due_date |-> due_date]

\* INSERT INTO todos (title, description, due_date) VALUES ($1, $2, $3)
\* RETURNING *: the row, or Err
TodoRow(b) ==
    LET title == NotNull(VarcharIn(PrepareValue(b.title), TitleWidth))
        description == TextIn(PrepareValue(Or(b.description, S(<<>>))))
        due_date == TimestampIn(PrepareValue(Or(b.due_date, Null)))
    IN IF IsErr(title) \/ IsErr(description) \/ IsErr(due_date)
       THEN Err
       ELSE [id |-> TodoNextId, title |-> title, description |-> description,
             completed |-> B(FALSE), due_date |-> due_date]

\* the UPDATE assigning description = $2 without COALESCE
UpdatedRowNoCoalesce(r, title, description, completed, due_date) ==
    [r EXCEPT !.title = Coalesce(title, @),
              !.description = description,
              !.completed = Coalesce(completed, @),
              !.due_date = Coalesce(due_date, @)]

\* the row an UPDATE leaves in place of r, given the converted parameters
UpdatedRow(r, title, description, completed, due_date) ==
    [r EXCEPT !.title = Coalesce(title, @),
              !.description = Coalesce(description, @),
              !.completed = Coalesce(completed, @),
              !.due_date = Coalesce(due_date, @)]

\* the UPDATE with completed bound as completed || null
UpdateTodosFalsyCompleted(table, id, b, fold) ==
    LET title == VarcharIn(PrepareValue(Or(b.title, Null)), TitleWidth)
        description == TextIn(PrepareValue(Or(b.description, Null)))
        completed == BoolIn(PrepareValue(Or(b.completed, Null)))
        due_date == TimestampIn(PrepareValue(Or(b.due_date, Null)))
        key == Int4In(PrepareValue(id))
        hit == IF IsErr(key) THEN {} ELSE {r \in table : r.id = key.v}
        new == {UpdatedRow(r, title, description, completed, due_date) : r \in hit}
    IN IF IsErr(completed) \/ IsErr(due_date) \/ IsErr(key)
          \/ (IsErr(title) /\ (hit # {} \/ fold))
       THEN [err |-> TRUE, rows |-> <<>>, table |-> table]
       ELSE [err |-> FALSE, rows |-> OrderByIdDesc(new), table |-> (table \ hit) \cup new]

\* UPDATE todos SET ... WHERE id = $5 RETURNING * on a table: the result rows
\* and the table after it, or err. The parameters are converted when the
\* statement is bound; the width of the title is checked when a row is
\* assigned, and (fold) may also be checked when the statement is planned.
UpdateTodos(table, id, b, fold) ==
    LET title == VarcharIn(PrepareValue(Or(b.title, Null)), TitleWidth)
        description == TextIn(PrepareValue(Or(b.description, Null)))
        completed == BoolIn(PrepareValue(b.completed))
        due_date == TimestampIn(PrepareValue(Or(b.due_date, Null)))
        key == Int4In(PrepareValue(id))
        hit == IF IsErr(key) THEN {} ELSE {r \in table : r.id = key.v}
        new == {UpdatedRow(r, title, description, completed, due_date) : r \in hit}
    IN IF IsErr(completed) \/ IsErr(due_date) \/ IsErr(key)
          \/ (IsErr(title) /\ (hit # {} \/ fold))
       THEN [err |-> TRUE, rows |-> <<>>, table |-> table]
       ELSE [err |-> FALSE, rows |-> OrderByIdDesc(new), table |-> (table \ hit) \cup new]

\* a statement that returns the row and leaves it in the table
DeleteTodosKeep(table, id) ==
    LET key == Int4In(PrepareValue(id))
        hit == IF IsErr(key) THEN {} ELSE {r \in table : r.id = key.v}
    IN IF IsErr(key)
       THEN [err |-> TRUE, rows |-> <<>>, table |-> table]
       ELSE [err |-> FALSE, rows |-> OrderByIdDesc(hit), table |-> table]

\* DELETE FROM todos WHERE id = $1 RETURNING * on a table
DeleteTodos(table, id) ==
    LET key == Int4In(PrepareValue(id))
        hit == IF IsErr(key) THEN {} ELSE {r \in table : r.id = key.v}
    IN IF IsErr(key)
       THEN [err |-> TRUE, rows |-> <<>>, table |-> table]
       ELSE [err |-> FALSE, rows |-> OrderByIdDesc(hit), table |-> table \ hit]

\* lower-case folding of one character
Lower(c) ==
    CASE c = "A" -> "a" [] c = "B" -> "b" [] c = "X" -> "x" [] OTHER -> c

LowerAll(cs) == [i \in 1..Len(cs) |-> Lower(cs[i])]

\* text LIKE pattern: % matches any run, _ any one character, \ quotes the
\* character after it
RECURSIVE Like(_, _)
Like(text, pat) ==
    IF pat = <<>> THEN text = <<>>
    ELSE IF Head(pat) = "%"
         THEN \E k \in 0..Len(text) : Like(SubSeq(text, k + 1, Len(text)), Tail(pat))
    ELSE IF Head(pat) = "_"
         THEN text # <<>> /\ Like(Tail(text), Tail(pat))
    ELSE IF Head(pat) = "\\" /\ Len(pat) > 1
         THEN text # <<>> /\ Head(text) = pat[2] /\ Like(Tail(text), Tail(Tail(pat)))
    ELSE text # <<>> /\ Head(text) = Head(pat) /\ Like(Tail(text), Tail(pat))

\* text ILIKE pattern
ILike(text, pat) == Like(LowerAll(text), LowerAll(pat))

\* the WHERE clause GET /api/todos builds from its query
TodoWhere(r, q) ==
    /\ Truthy(q.search) => ILike(r.title.v, <<"%">> \o q.search.v \o <<"%">>)
    /\ q.status = S(<<"c","o","m","p","l","e","t","e","d">>) => r.completed = B(TRUE)
    /\ q.status = S(<<"p","e","n","d","i","n","g">>) => r.completed = B(FALSE)

\* SELECT * FROM todos [WHERE ...] ORDER BY id DESC
TodoList(q) == OrderByIdDesc({r \in todos : TodoWhere(r, q)})

-----------------------------------------------------------------------------
(* To-do resource: the handlers *)

\* app.post("/api/todos")
PostTodo(b, burn) ==
    /\ variant = 1
    /\ req' = [op |-> "POST /api/todos", body |-> b]
    /\ UNCHANGED <<variant, BASE_URL, uploads, form_entries, form_seq, deleted, concVars>>
    /\ IF ~Truthy(b.title)
       THEN /\ resp' = Response(400, <<>>)
            /\ UNCHANGED <<todos, todo_seq, issued>>
       ELSE LET row == TodoRow(b)
            IN IF IsErr(row)
               THEN /\ todo_seq < MaxId
                    /\ todo_seq' = IF burn THEN Nextval(todo_seq) ELSE todo_seq
                    /\ resp' = Response(500, <<>>)
                    /\ UNCHANGED <<todos, issued>>
               ELSE /\ todo_seq < MaxId
                    /\ todo_seq' = row.id
                    /\ todos' = todos \cup {row}
                    /\ issued' = [issued EXCEPT !.todo = Append(@, row.id)]
                    /\ resp' = Response(200, <<row>>)

\* app.get("/api/todos")
GetTodos(q) ==
    /\ variant = 1
    /\ req' = [op |-> "GET /api/todos", query |-> q]
    /\ resp' = Response(200, TodoList(q))
    /\ UNCHANGED <<variant, BASE_URL, uploads, dbVars, issued, deleted, concVars>>

\* the answer without the rows.length === 0 test
AnswerNoRowTest(res) ==
    IF res.err THEN Response(500, <<>>)
    ELSE Response(200, res.rows)

\* the status and body the PUT and DELETE handlers answer a statement's result with
Answer(res) ==
    IF res.err THEN Response(500, <<>>)
    ELSE IF Len(res.rows) = 0 THEN Response(404, <<>>)
    ELSE Response(200, <<res.rows[1]>>)

\* app.put("/api/todos/:id")
PutTodo(id, b, fold) ==
    /\ variant = 1
    /\ req' = [op |-> "PUT /api/todos/:id", id |-> id, body |-> b]
    /\ LET res == UpdateTodos(todos, id, b, fold)
       IN /\ todos' = res.table
          /\ resp' = Answer(res)
    /\ UNCHANGED <<variant, BASE_URL, uploads, form_entries, form_seq, todo_seq,
                   issued, deleted, concVars>>

\* app.delete("/api/todos/:id")
DeleteTodo(id) ==
    /\ variant = 1
    /\ req' = [op |-> "DELETE /api/todos/:id", id |-> id]
    /\ LET res == DeleteTodos(todos, id)
       IN /\ todos' = res.table
          /\ resp' = Answer(res)
          /\ deleted' = deleted \cup {res.rows[i].id : i \in 1..Len(res.rows)}
    /\ UNCHANGED <<variant, BASE_URL, uploads, form_entries, form_seq, todo_seq,
                   issued, concVars>>

-----------------------------------------------------------------------------
(* The state after the process has started and createTable has run *)

Init ==
    /\ variant = 1
    /\ BASE_URL = Undef
    /\ uploads = {}
    /\ form_entries = {}
    /\ form_seq = 0
    /\ todos = {}
    /\ todo_seq = 0
    /\ req = NoRequest
    /\ resp = Response(0, <<>>)
    /\ issued = [form |-> <<>>, todo |-> <<>>]
    /\ deleted = {}
    /\ inflight = [s \in 1..MaxInFlight |-> [pc |-> "free"]]
    /\ order = <<>>

\* either file may be the one running, with or without BASE_URL set
InitForm ==
    /\ variant \in {1, 2}
    /\ BASE_URL \in {Undef, S(<<"https://cdn.example">>)}
    /\ uploads = {}
    /\ form_entries = {}
    /\ form_seq = 0
    /\ todos = {}
    /\ todo_seq = 0
    /\ req = NoRequest
    /\ resp = Response(0, <<>>)
    /\ issued = [form |-> <<>>, todo |-> <<>>]
    /\ deleted = {}
    /\ inflight = [s \in 1..MaxInFlight |-> [pc |-> "free"]]
    /\ order = <<>>

-----------------------------------------------------------------------------
(* Requests submitted to the form resource *)

Required == {"owner", "shopname", "businesstype", "phone", "location"}

BaseForm ==
    [owner |-> S(<<"a","l">>), shopname |-> S(<<"s","h","o","p">>),
     businesstype |-> S(<<"t","e","a">>), phone |-> S(<<"1","2">>),
     location |-> S(<<"k","o","c","h","i">>), building |-> Undef]

NoFile == [present |-> FALSE]
PngFile == [present |-> TRUE, stamp |-> "1700000000000-42", ext |-> ".png"]

FormBodies ==
    {BaseForm}
    \cup {[BaseForm EXCEPT ![f] = v] : f \in Required, v \in {Undef, S(<<>>)}}
    \cup {[BaseForm EXCEPT !.owner = S(Rep("x", OwnerWidth + 1))],
          [BaseForm EXCEPT !.phone = S(Rep("9", PhoneWidth))],
          [BaseForm EXCEPT !.phone = S(Rep("9", PhoneWidth + 1))],
          [BaseForm EXCEPT !.phone = S(Rep("9", PhoneWidth) \o <<" ">>)],
          [BaseForm EXCEPT !.building = S(<<>>)],
          [BaseForm EXCEPT !.building = S(<<"b","1">>)],
          [BaseForm EXCEPT !.building = S(Rep("x", BuildingWidth + 1))],
          [BaseForm EXCEPT !.owner = Undef, !.phone = S(Rep("9", PhoneWidth + 1))]}

FormRequests ==
    {[body |-> b, file |-> NoFile] : b \in FormBodies}
    \cup {[body |-> b, file |-> PngFile] :
            b \in {BaseForm, [BaseForm EXCEPT !.owner = Undef],
                   [BaseForm EXCEPT !.location = S(<<>>)]}}

NextForm ==
    \/ \E r \in FormRequests, burn \in BOOLEAN : PostForm(r.body, r.file, burn)
    \/ \E r \in FormRequests, burn \in BOOLEAN : PostForm2(r.body, r.file, burn)
    \/ GetForm

SpecForm == InitForm /\ [][NextForm]_vars

-----------------------------------------------------------------------------
(* PUT and DELETE as concurrent requests: a handler sends its one statement,
   the store runs statements one at a time, the handler then answers *)

\* a request arrives and its handler is about to send its statement
Submit(s, r) ==
    /\ inflight[s].pc = "free"
    /\ IF s = 1 THEN TRUE ELSE inflight[s - 1].pc # "free"
    /\ inflight' = [inflight EXCEPT ![s] = [pc |-> "sent", op |-> r.op, id |-> r.id,
                                            body |-> r.body]]
    /\ UNCHANGED <<variant, BASE_URL, uploads, dbVars, req, resp, issued, deleted, order>>

\* the store runs the UPDATE of the PUT handler in slot s
RunPut(s, fold) ==
    /\ inflight[s].pc = "sent"
    /\ inflight[s].op = "PUT"
    /\ LET res == UpdateTodos(todos, inflight[s].id, inflight[s].body, fold)
       IN /\ todos' = res.table
          /\ inflight' = [inflight EXCEPT ![s] =
                            [pc |-> "ran", op |-> @.op, id |-> @.id, body |-> @.body,
                             answer |-> Answer(res)]]
    /\ order' = Append(order, s)
    /\ UNCHANGED <<variant, BASE_URL, uploads, form_entries, form_seq, todo_seq,
                   req, resp, issued, deleted>>

\* the store runs the DELETE of the DELETE handler in slot s
RunDelete(s) ==
    /\ inflight[s].pc = "sent"
    /\ inflight[s].op = "DELETE"
    /\ LET res == DeleteTodos(todos, inflight[s].id)
       IN /\ todos' = res.table
          /\ inflight' = [inflight EXCEPT ![s] =
                            [pc |-> "ran", op |-> @.op, id |-> @.id, body |-> @.body,
                             answer |-> Answer(res)]]
          /\ deleted' = deleted \cup {res.rows[i].id : i \in 1..Len(res.rows)}
    /\ order' = Append(order, s)
    /\ UNCHANGED <<variant, BASE_URL, uploads, form_entries, form_seq, todo_seq,
                   req, resp, issued>>

\* the handler in slot s resumes after its await and sends the response
Reply(s) ==
    /\ inflight[s].pc = "ran"
    /\ inflight' = [inflight EXCEPT ![s].pc = "answered"]
    /\ UNCHANGED <<variant, BASE_URL, uploads, dbVars, req, resp, issued, deleted, order>>

-----------------------------------------------------------------------------
(* Requests submitted to the to-do resource *)

NoBody == [title |-> Undef, description |-> Undef, completed |-> Undef, due_date |-> Undef]
NoQuery == [search |-> Undef, status |-> Undef]
Completed == S(<<"c","o","m","p","l","e","t","e","d">>)
Pending == S(<<"p","e","n","d","i","n","g">>)

\* bodies of POST /api/todos: title absent, null, empty; defaults; every field
\* given; empty strings; the two spellings of one instant; a value that is no
\* timestamp; a title at, past and past-with-blanks the column width
PostBodies ==
    {[NoBody EXCEPT !.title = t] : t \in {Undef, Null, S(<<>>), S(<<"a">>)}}
    \cup {[NoBody EXCEPT !.title = S(<<"a">>), !.description = S(<<"d">>),
                         !.due_date = S(d)] : d \in {DateA, DateAFull}}
    \cup {[NoBody EXCEPT !.title = S(<<"a">>), !.description = S(<<>>),
                         !.due_date = S(<<>>)],
          [NoBody EXCEPT !.title = S(<<"a">>), !.description = Null, !.due_date = Null],
          [NoBody EXCEPT !.title = S(<<"a">>), !.due_date = S(DateBad)],
          [NoBody EXCEPT !.title = S(<<>>), !.due_date = S(DateBad)],
          [NoBody EXCEPT !.title = S(Rep("x", TitleWidth))],
          [NoBody EXCEPT !.title = S(Rep("x", TitleWidth + 1))],
          [NoBody EXCEPT !.title = S(Rep("x", TitleWidth) \o <<" ">>)]}

\* ids in the path: rows that may exist, one spelled with a blank and a leading
\* zero, one that never exists, one that is no number, one past 32 bits
PathIds ==
    {S(<<"1">>), S(<<"2">>), S(<<" ","0","2">>), S(<<"9">>), S(<<"a","b","c">>),
     S(<<"2","1","4","7","4","8","3","6","4","8">>)}

\* bodies of PUT /api/todos/:id: one field at a time, absent, null, empty,
\* given, rejected; and several fields together
PutBodies ==
    {NoBody}
    \cup {[NoBody EXCEPT !.completed = c] : c \in {Null, B(TRUE), B(FALSE)}}
    \cup {[NoBody EXCEPT !.title = t] :
            t \in {Null, S(<<>>), S(<<"b">>), S(Rep("x", TitleWidth + 1))}}
    \cup {[NoBody EXCEPT !.description = d] : d \in {Null, S(<<>>), S(<<"e">>)}}
    \cup {[NoBody EXCEPT !.due_date = d] : d \in {Null, S(<<>>), S(DateB), S(DateBad)}}
    \cup {[title |-> S(<<"b">>), description |-> S(<<>>), completed |-> B(FALSE),
           due_date |-> S(DateB)]}

\* queries of GET /api/todos
Searches == {Undef, S(<<>>), S(<<"a">>), S(<<"A","B">>), S(<<"b">>), S(<<"_">>), S(<<"%">>)}
Statuses == {Undef, Completed, Pending, S(<<"d","o","n","e">>)}
Queries == {[search |-> q, status |-> st] : q \in Searches, st \in Statuses}

-----------------------------------------------------------------------------
(* Specifications *)

\* both resources, a few requests each
Next ==
    \/ \E r \in {[body |-> BaseForm, file |-> NoFile],
                 [body |-> [BaseForm EXCEPT !.owner = Undef], file |-> PngFile],
                 [body |-> [BaseForm EXCEPT !.phone = S(Rep("9", PhoneWidth + 1))],
                  file |-> NoFile]}, burn \in BOOLEAN :
            PostForm(r.body, r.file, burn)
    \/ GetForm
    \/ \E b \in {[NoBody EXCEPT !.title = S(<<"a">>)],
                 [NoBody EXCEPT !.title = S(<<>>)],
                 [NoBody EXCEPT !.title = S(<<"a">>), !.due_date = S(DateBad)]},
          burn \in BOOLEAN : PostTodo(b, burn)
    \/ GetTodos(NoQuery)
    \/ \E id \in {S(<<"1">>), S(<<"2">>)} :
            PutTodo(id, [NoBody EXCEPT !.completed = B(TRUE)], FALSE)
    \/ \E id \in {S(<<"1">>), S(<<"2">>), S(<<"a","b","c">>)} : DeleteTodo(id)

Spec == Init /\ [][Next]_vars

\* the to-do resource: creation and deletion in full, a little of the rest
NextTodo ==
    \/ \E b \in PostBodies, burn \in BOOLEAN : PostTodo(b, burn)
    \/ \E q \in {NoQuery, [NoQuery EXCEPT !.status = Completed]} : GetTodos(q)
    \/ \E id \in {S(<<"1">>), S(<<"2">>)} :
            PutTodo(id, [NoBody EXCEPT !.completed = B(TRUE)], FALSE)
    \/ \E id \in PathIds : DeleteTodo(id)

SpecTodo == Init /\ [][NextTodo]_vars

\* the to-do resource: update in full on to-do 1 and on an id without a row,
\* a few updates on another row and on an id that is no number
NextPut ==
    \/ \E b \in {[NoBody EXCEPT !.title = S(<<"a">>), !.description = S(<<"d">>),
                                 !.due_date = S(DateA)],
                 [NoBody EXCEPT !.title = S(<<"a">>)]} : PostTodo(b, FALSE)
    \/ GetTodos(NoQuery)
    \/ \E id \in {S(<<"1">>), S(<<"9">>)}, b \in PutBodies : PutTodo(id, b, FALSE)
    \/ \E id \in {S(<<" ","0","2">>), S(<<"a","b","c">>)},
          b \in {NoBody, [NoBody EXCEPT !.completed = B(TRUE)],
                 [NoBody EXCEPT !.due_date = S(DateBad)]} : PutTodo(id, b, FALSE)
    \/ \E id \in {S(<<"1">>), S(<<"9">>)} :
            PutTodo(id, [NoBody EXCEPT !.title = S(Rep("x", TitleWidth + 1))], TRUE)
    \/ DeleteTodo(S(<<"1">>))

SpecPut == Init /\ [][NextPut]_vars

\* the to-do resource: listing in full
NextList ==
    \/ \E t \in {<<"a">>, <<"A","b">>, <<"c">>} :
            PostTodo([NoBody EXCEPT !.title = S(t)], FALSE)
    \/ \E q \in Queries : GetTodos(q)
    \/ \E id \in {S(<<"1">>), S(<<"2">>)} :
            PutTodo(id, [NoBody EXCEPT !.completed = B(TRUE)], FALSE)
    \/ DeleteTodo(S(<<"1">>))

SpecList == Init /\ [][NextList]_vars

\* concurrent PUT and DELETE requests for to-do 1
SeedRow ==
    [id |-> 1, title |-> S(<<"a">>), description |-> S(<<>>), completed |-> B(FALSE),
     due_date |-> Null]

\* the state after one POST /api/todos {title: "a"}
InitConc ==
    /\ variant = 1
    /\ BASE_URL = Undef
    /\ uploads = {}
    /\ form_entries = {}
    /\ form_seq = 0
    /\ todos = {SeedRow}
    /\ todo_seq = 1
    /\ req = [op |-> "POST /api/todos", body |-> [NoBody EXCEPT !.title = S(<<"a">>)]]
    /\ resp = Response(200, <<SeedRow>>)
    /\ issued = [form |-> <<>>, todo |-> <<1>>]
    /\ deleted = {}
    /\ inflight = [s \in 1..MaxInFlight |-> [pc |-> "free"]]
    /\ order = <<>>

ConcRequests ==
    {[op |-> "DELETE", id |-> S(<<"1">>), body |-> NoBody],
     [op |-> "PUT", id |-> S(<<"1">>), body |-> [NoBody EXCEPT !.title = S(<<"b">>)]],
     [op |-> "PUT", id |-> S(<<"1">>),
      body |-> [NoBody EXCEPT !.title = S(<<"c">>), !.completed = B(TRUE)]],
     [op |-> "PUT", id |-> S(<<"1">>), body |-> [NoBody EXCEPT !.due_date = S(DateBad)]],
     [op |-> "PUT", id |-> S(<<"1">>),
      body |-> [NoBody EXCEPT !.title = S(Rep("x", TitleWidth + 1))]]}

NextConc ==
    \/ \E s \in 1..MaxInFlight, r \in ConcRequests : Submit(s, r)
    \/ \E s \in 1..MaxInFlight, fold \in BOOLEAN : RunPut(s, fold)
    \/ \E s \in 1..MaxInFlight : RunDelete(s)
    \/ \E s \in 1..MaxInFlight : Reply(s)

SpecConc == InitConc /\ [][NextConc]_vars

-----------------------------------------------------------------------------
(* Properties of the form resource, checked under SpecForm *)

Range(seq) == {seq[i] : i \in 1..Len(seq)}

\* one of the five required fields is omitted or is the empty string
MissingRequired(b) == \E f \in Required : b[f] = Undef \/ b[f] = S(<<>>)

\* all five required fields are present and non-empty
AllRequired(b) == \A f \in Required : b[f].t = "string" /\ b[f].v # <<>>

\* the width of the column a form field is stored in
Width(f) ==
    CASE f = "owner" -> OwnerWidth
      [] f = "shopname" -> ShopnameWidth
      [] f = "businesstype" -> BusinesstypeWidth
      [] f = "phone" -> PhoneWidth
      [] f = "location" -> LocationWidth
      [] f = "building" -> BuildingWidth

\* every submitted field is no longer than its column
FitsForm(b) ==
    \A f \in Required \cup {"building"} : b[f].t = "string" => Len(b[f].v) <= Width(f)

\* the row holds the submitted values, building "" when it was omitted
Echoes(row, b) ==
    /\ \A f \in Required : row[f] = b[f]
    /\ row.building = IF b.building = Undef THEN S(<<>>) ELSE b.building

\* C1: a POST /api/form in which one of owner, shopname, businesstype, phone,
\* location is omitted or empty, with or without a photo, answers 400 and
\* leaves table form_entries as it was before the request.
C1_MissingFieldRejected ==
    [][(req'.op = "POST /api/form" /\ MissingRequired(req'.body))
         => (resp'.status = 400 /\ form_entries' = form_entries)]_vars

\* C1's case: a submission with a photo and no owner was refused while the
\* table already held a row
C1_Witness ==
    /\ req.op = "POST /api/form"
    /\ req.body.owner = Undef
    /\ req.file.present
    /\ resp.status = 400
    /\ form_entries # {}

\* C5: GET /api/form answers with the entries in strictly descending id order;
\* after N successful creates the list has at least N rows, and the row created
\* last comes first among the created rows.
C5_FormListNewestFirst ==
    req.op = "GET /api/form" =>
        LET rows == resp.rows
            n == Len(issued.form)
            created == SelectSeq(rows, LAMBDA r : r.id \in Range(issued.form))
        IN /\ resp.status = 200
           /\ \A i \in 1..(Len(rows) - 1) : rows[i].id > rows[i + 1].id
           /\ Len(rows) >= n
           /\ n > 0 => created[1].id = issued.form[n]

\* C5's case: a listing of two created entries
C5_Witness ==
    /\ req.op = "GET /api/form"
    /\ Len(resp.rows) >= 2
    /\ Len(issued.form) >= 2

\* C7 as stated: every POST /api/form with all five required fields present and
\* non-empty answers 200 with a persisted row whose fields equal the submitted
\* values, building "" when omitted.
C7_AsStated ==
    [][(req'.op = "POST /api/form" /\ AllRequired(req'.body))
         => /\ resp'.status = 200
            /\ Len(resp'.rows) = 1
            /\ Echoes(resp'.rows[1], req'.body)
            /\ resp'.rows[1] \in form_entries']_vars

\* C7, amended: every POST /api/form with all five required fields present and
\* non-empty, and no field longer than its column (100 characters, 20 for
\* phone), answers 200 with a persisted row whose fields equal the submitted
\* values, building "" when omitted.
C7_ValidFormPersisted ==
    [][(req'.op = "POST /api/form" /\ AllRequired(req'.body) /\ FitsForm(req'.body))
         => /\ resp'.status = 200
            /\ Len(resp'.rows) = 1
            /\ Echoes(resp'.rows[1], req'.body)
            /\ resp'.rows[1] \in form_entries'
            /\ resp'.rows[1] \notin form_entries]_vars

\* C7's case: a submission with a photo, a phone number as wide as its column
\* allows and no building was stored
C7_Witness ==
    /\ req.op = "POST /api/form"
    /\ AllRequired(req.body)
    /\ req.body.building = Undef
    /\ resp.status = 200
    /\ \E r \in form_entries : Len(r.phone.v) = PhoneWidth
    /\ \E r \in form_entries : r.photo_url # Null

-----------------------------------------------------------------------------
(* Properties of the to-do resource *)

\* the id in the path is an integer of 32 bits, as the store reads it
IsInt4(id) == ~IsErr(Int4In(id))

\* the id in the path is the id of row r
Names(id, r) == Int4In(id) = [t |-> "integer", v |-> r.id]

\* the value is not supplied
Absent(x) == x \in {Undef, Null}

\* the string is a timestamp the store reads
IsTimestamp(x) == x.t = "string" /\ ~IsErr(TimestampIn(x))

\* the store accepts the values of a PUT body: a title within the column, a
\* due_date that is a timestamp, completed a boolean
Accepts(b) ==
    /\ Absent(b.title) \/ Len(b.title.v) <= TitleWidth
    /\ Absent(b.due_date) \/ b.due_date = S(<<>>) \/ IsTimestamp(b.due_date)
    /\ Absent(b.completed) \/ b.completed.t = "boolean"

\* the store rejects a value of a PUT body whatever rows the statement finds
Rejects(b) == ~Absent(b.due_date) /\ b.due_date # S(<<>>) /\ ~IsTimestamp(b.due_date)

\* the title is longer than its column by more than trailing blanks
TitleTooLong(b) ==
    /\ b.title.t = "string"
    /\ \E i \in (TitleWidth + 1)..Len(b.title.v) : b.title.v[i] # " "

\* C9 as stated: POST /api/todos with an empty or absent title answers 400 and
\* adds no row; with a non-empty title it answers 200 and the created row has
\* completed false, the supplied description or "" when absent, the supplied
\* due_date or null when absent.
C9_AsStated ==
    [][req'.op = "POST /api/todos" =>
        LET b == req'.body
        IN IF Absent(b.title) \/ b.title = S(<<>>)
           THEN resp'.status = 400 /\ todos' = todos
           ELSE /\ resp'.status = 200
                /\ Len(resp'.rows) = 1
                /\ resp'.rows[1].completed = B(FALSE)
                /\ resp'.rows[1].description
                     = IF Absent(b.description) THEN S(<<>>) ELSE b.description
                /\ resp'.rows[1].due_date
                     = IF Absent(b.due_date) THEN Null ELSE TimestampIn(b.due_date)]_vars

\* C9, amended: POST /api/todos with an empty or absent title answers 400 and
\* adds no row; with a non-empty title of at most 255 characters and a due_date
\* that is absent, empty or a timestamp it answers 200 and the created row has
\* completed false, the supplied description or "" when absent, and the
\* supplied due_date, or null when it is absent or empty.
C9_TodoCreate ==
    [][req'.op = "POST /api/todos" =>
        LET b == req'.body
        IN IF Absent(b.title) \/ b.title = S(<<>>)
           THEN resp'.status = 400 /\ todos' = todos
           ELSE (Len(b.title.v) <= TitleWidth
                    /\ (Absent(b.due_date) \/ b.due_date = S(<<>>) \/ IsTimestamp(b.due_date)))
                => /\ resp'.status = 200
                   /\ Len(resp'.rows) = 1
                   /\ todos' = todos \cup {resp'.rows[1]}
                   /\ resp'.rows[1] \notin todos
                   /\ resp'.rows[1].title = b.title
                   /\ resp'.rows[1].completed = B(FALSE)
                   /\ resp'.rows[1].description
                        = IF Absent(b.description) THEN S(<<>>) ELSE b.description
                   /\ resp'.rows[1].due_date
                        = IF Absent(b.due_date) \/ b.due_date = S(<<>>) THEN Null
                          ELSE TimestampIn(b.due_date)]_vars

\* C9's case: a to-do created from a title alone, as the second row
C9_Witness ==
    /\ req.op = "POST /api/todos"
    /\ req.body.description = Undef
    /\ req.body.due_date = Undef
    /\ resp.status = 200
    /\ Cardinality(todos) >= 2

\* C3 as stated: DELETE /api/todos/:id on an existing id answers 200 with the
\* row as it was and no later GET /api/todos contains that id; DELETE on an id
\* that matches no row answers 404 and leaves table todos unchanged.
C3_AsStated ==
    [][/\ req'.op = "DELETE /api/todos/:id" =>
            IF \E r \in todos : Names(req'.id, r)
            THEN \E r \in todos : /\ Names(req'.id, r)
                                  /\ resp' = Response(200, <<r>>)
                                  /\ todos' = todos \ {r}
            ELSE resp'.status = 404 /\ todos' = todos
       /\ req'.op = "GET /api/todos" =>
            \A i \in 1..Len(resp'.rows) : resp'.rows[i].id \notin deleted']_vars

\* C3, amended: DELETE /api/todos/:id on an existing id answers 200 with the
\* row as it was and no later GET /api/todos contains that id; DELETE on an id
\* that matches no row leaves table todos unchanged and answers 404 when the id
\* is an integer of 32 bits, 500 when it is not.
C3_TodoDelete ==
    [][/\ req'.op = "DELETE /api/todos/:id" =>
            IF \E r \in todos : Names(req'.id, r)
            THEN \E r \in todos : /\ Names(req'.id, r)
                                  /\ resp' = Response(200, <<r>>)
                                  /\ todos' = todos \ {r}
            ELSE /\ resp'.status = IF IsInt4(req'.id) THEN 404 ELSE 500
                 /\ todos' = todos
       /\ req'.op = "GET /api/todos" =>
            \A i \in 1..Len(resp'.rows) : resp'.rows[i].id \notin deleted']_vars

\* C3's case: a to-do was deleted, answered with its row, and another remains
C3_Witness ==
    /\ req.op = "DELETE /api/todos/:id"
    /\ resp.status = 200
    /\ resp.rows[1].id \in deleted
    /\ todos # {}

\* the body {completed: true}
OnlyCompletedTrue == [NoBody EXCEPT !.completed = B(TRUE)]

\* C2 as stated: a PUT /api/todos/:id whose body is only {completed: true} and
\* whose id matches a row leaves the row's title, description and due_date as
\* they were, sets completed, and changes no other row; a PUT whose id matches
\* no row answers 404.
C2_AsStated ==
    [][req'.op = "PUT /api/todos/:id" =>
        IF \E r \in todos : Names(req'.id, r)
        THEN req'.body = OnlyCompletedTrue =>
                \E r \in todos :
                    /\ Names(req'.id, r)
                    /\ resp' = Response(200, <<[r EXCEPT !.completed = B(TRUE)]>>)
                    /\ todos' = (todos \ {r}) \cup {[r EXCEPT !.completed = B(TRUE)]}
        ELSE resp'.status = 404]_vars

\* C2, amended: the same for an id that matches a row; a PUT whose id matches
\* no row changes nothing and answers 404 when the id is an integer of 32 bits
\* and the store accepts the body's values, 500 when the id is no such integer
\* or due_date is no timestamp, and 404 or 500 when only the title is longer
\* than its column.
C2_CompletedOnlyUpdate ==
    [][req'.op = "PUT /api/todos/:id" =>
        IF \E r \in todos : Names(req'.id, r)
        THEN req'.body = OnlyCompletedTrue =>
                \E r \in todos :
                    /\ Names(req'.id, r)
                    /\ resp' = Response(200, <<[r EXCEPT !.completed = B(TRUE)]>>)
                    /\ todos' = (todos \ {r}) \cup {[r EXCEPT !.completed = B(TRUE)]}
        ELSE /\ todos' = todos
             /\ resp'.status =
                  IF ~IsInt4(req'.id) \/ Rejects(req'.body) THEN 500
                  ELSE IF Accepts(req'.body) THEN 404
                  ELSE resp'.status
             /\ resp'.status \in {404, 500}]_vars

\* C2's case: {completed: true} was put on a row with a description and a due
\* date while another row existed
C2_Witness ==
    /\ req.op = "PUT /api/todos/:id"
    /\ req.body = OnlyCompletedTrue
    /\ resp.status = 200
    /\ resp.rows[1].description # S(<<>>)
    /\ resp.rows[1].due_date # Null
    /\ Cardinality(todos) >= 2

Fields == {"title", "description", "completed", "due_date"}

\* the value a supplied field is stored as
StoredAs(f, x) == IF f = "due_date" THEN TimestampIn(x) ELSE x

\* the fields C6 says an update leaves alone
KeptAsStated(f, x) == Absent(x) \/ (f \in {"title", "description"} /\ x = S(<<>>))

\* the fields an update leaves alone
Kept(f, x) == Absent(x) \/ (f \in {"title", "description", "due_date"} /\ x = S(<<>>))

\* C6 as stated: a PUT /api/todos/:id that updates an existing row leaves a
\* field as it was if the supplied value is absent or null, or the empty string
\* for title or description, and otherwise sets it to the supplied value;
\* completed: false sets completed to false.
C6_AsStated ==
    [][(req'.op = "PUT /api/todos/:id" /\ resp'.status = 200) =>
        \E r \in todos :
            /\ Names(req'.id, r)
            /\ \A f \in Fields :
                 resp'.rows[1][f] = IF KeptAsStated(f, req'.body[f]) THEN r[f]
                                    ELSE StoredAs(f, req'.body[f])]_vars

\* C6, amended: a PUT /api/todos/:id on an existing row whose values the store
\* accepts answers 200 and leaves a field as it was if and only if the supplied
\* value is absent or null, or is the empty string for title, description or
\* due_date; otherwise the field takes the supplied value, and completed: false
\* sets completed to false. A PUT on an existing row with a due_date that is no
\* timestamp, or a title longer than 255 characters by more than trailing
\* blanks, answers 500 and changes nothing.
C6_PartialUpdate ==
    [][req'.op = "PUT /api/todos/:id" =>
        \A r \in todos :
            Names(req'.id, r) =>
                IF Accepts(req'.body)
                THEN /\ resp'.status = 200
                     /\ Len(resp'.rows) = 1
                     /\ todos' = (todos \ {r}) \cup {resp'.rows[1]}
                     /\ resp'.rows[1].id = r.id
                     /\ \A f \in Fields :
                          resp'.rows[1][f] = IF Kept(f, req'.body[f]) THEN r[f]
                                             ELSE StoredAs(f, req'.body[f])
                ELSE (Rejects(req'.body) \/ TitleTooLong(req'.body))
                        => (resp'.status = 500 /\ todos' = todos)]_vars

\* C6's case: completed: false, with a title, a due date and an empty
\* description, was put on a row; its description stayed and completed is false
C6_Witness ==
    /\ req.op = "PUT /api/todos/:id"
    /\ req.body.completed = B(FALSE)
    /\ req.body.description = S(<<>>)
    /\ resp.status = 200
    /\ resp.rows[1].completed = B(FALSE)
    /\ resp.rows[1].description = S(<<"e">>)

\* text contains sub
Contains(text, sub) ==
    \E k \in 0..(Len(text) - Len(sub)) : SubSeq(text, k + 1, k + Len(sub)) = sub

\* the row satisfies every filter the query supplies
Satisfies(r, q) ==
    /\ (q.search.t = "string") => Contains(LowerAll(r.title.v), LowerAll(q.search.v))
    /\ q.status = Completed => r.completed = B(TRUE)
    /\ q.status = Pending => r.completed = B(FALSE)

\* C8: GET /api/todos answers, in descending id order, exactly the rows that
\* satisfy every supplied filter: a title containing search without regard to
\* case, completed true for status=completed and false for status=pending, both
\* together, and no status filter for an absent or unrecognized status.
C8_AsStated ==
    req.op = "GET /api/todos" =>
        /\ resp.status = 200
        /\ \A i \in 1..(Len(resp.rows) - 1) : resp.rows[i].id > resp.rows[i + 1].id
        /\ Range(resp.rows) = {r \in todos : Satisfies(r, req.query)}

-----------------------------------------------------------------------------
(* Identifiers, checked under Spec *)

\* C4: no identifier is reused: the id a successful create assigns differs from
\* every id assigned earlier in the same table, deleted to-dos included; and a
\* create in one table changes neither the rows nor the next id of the other.
C4_IdsNeverReused ==
    [][/\ req'.op = "POST /api/todos" =>
            /\ resp'.status = 200 =>
                 /\ resp'.rows[1].id \notin Range(issued.todo)
                 /\ resp'.rows[1].id \notin deleted
                 /\ \A r \in todos : r.id # resp'.rows[1].id
            /\ form_entries' = form_entries /\ form_seq' = form_seq
       /\ req'.op = "POST /api/form" =>
            /\ resp'.status = 200 =>
                 /\ resp'.rows[1].id \notin Range(issued.form)
                 /\ \A r \in form_entries : r.id # resp'.rows[1].id
            /\ todos' = todos /\ todo_seq' = todo_seq]_vars

\* C4's case: a to-do was created after another had been deleted, with a form
\* entry stored
C4_Witness ==
    /\ req.op = "POST /api/todos"
    /\ resp.status = 200
    /\ deleted # {}
    /\ form_entries # {}

-----------------------------------------------------------------------------
(* Concurrent PUT and DELETE, checked under SpecConc *)

\* the slots whose statement has run
Ran == {s \in 1..MaxInFlight : inflight[s].pc \in {"ran", "answered"}}

\* the place of slot s among the statements run
Place(s) == CHOOSE i \in 1..Len(order) : order[i] = s

\* the DELETE requests answered 200
Deleters == {s \in Ran : inflight[s].op = "DELETE" /\ inflight[s].answer.status = 200}

\* slot s ran after a DELETE that was answered 200
AfterDelete(s) == \E d \in Deleters : Place(d) < Place(s)

\* the table the request in slot s leaves when its statement runs on table
AfterRequest(table, s, fold) ==
    IF inflight[s].op = "DELETE" THEN DeleteTodos(table, inflight[s].id).table
    ELSE UpdateTodos(table, inflight[s].id, inflight[s].body, fold).table

\* the requests of the slots in seq, run one after the other on table, can
\* leave the table final
RECURSIVE Serial(_, _, _)
Serial(seq, table, final) ==
    IF seq = <<>> THEN table = final
    ELSE \E fold \in BOOLEAN :
            Serial(Tail(seq), AfterRequest(table, Head(seq), fold), final)

\* the orders in which the requests that ran can be put
Orders ==
    {p \in [1..Cardinality(Ran) -> Ran] :
        \A i, j \in 1..Cardinality(Ran) : p[i] = p[j] => i = j}

\* what C10 says of the DELETE requests and of the final table
ConcDeletes ==
    /\ Cardinality(Deleters) <= 1
    /\ \A s \in Deleters : inflight[s].answer.rows[1].id = SeedRow.id
    /\ \A s \in Ran : inflight[s].op = "DELETE" =>
            inflight[s].answer.status = IF s \in Deleters THEN 200 ELSE 404
    /\ \A s \in Ran : (inflight[s].op = "DELETE" /\ AfterDelete(s)) => s \notin Deleters
    /\ (\A s \in 1..MaxInFlight : inflight[s].pc \in {"free", "answered"}) =>
            \E p \in Orders : Serial(p, {SeedRow}, todos)

\* C10 as stated: of concurrent PUT and DELETE requests for one existing to-do,
\* at most one DELETE answers 200 with the row and every other DELETE 404; a
\* PUT answers 200 only if its statement runs before the successful DELETE and
\* 404 otherwise; the final table is one that some serial order of the requests
\* produces.
C10_AsStated ==
    /\ ConcDeletes
    /\ \A s \in Ran : inflight[s].op = "PUT" =>
            /\ inflight[s].answer.status = 200 => ~AfterDelete(s)
            /\ AfterDelete(s) => inflight[s].answer.status = 404

\* C10, amended: the same, except that a PUT whose statement runs after the
\* successful DELETE answers 404 when the store accepts its body's values, 500
\* when its due_date is no timestamp, and 404 or 500 when only its title is
\* longer than its column.
C10_ConcurrentPutDelete ==
    /\ ConcDeletes
    /\ \A s \in Ran : inflight[s].op = "PUT" =>
            /\ inflight[s].answer.status = 200 => ~AfterDelete(s)
            /\ AfterDelete(s) =>
                 /\ inflight[s].answer.status \in {404, 500}
                 /\ Accepts(inflight[s].body) => inflight[s].answer.status = 404
                 /\ Rejects(inflight[s].body) => inflight[s].answer.status = 500

\* C10's case: a PUT ran and was answered 200, then a DELETE was answered 200,
\* then a DELETE and a PUT were answered 404
C10_Witness ==
    /\ Len(order) >= 3
    /\ inflight[order[1]].op = "PUT" /\ inflight[order[1]].answer.status = 200
    /\ inflight[order[2]].op = "DELETE" /\ inflight[order[2]].answer.status = 200
    /\ inflight[order[3]].answer.status = 404
    /\ \A s \in 1..MaxInFlight : inflight[s].pc = "answered"

====
